---- MODULE Spec2Model ----
(***************************************************************************)
(* Costume recommendation engine: hard filter, relaxation ladder, scorer,  *)
(* diversity passes, fallback composer and the two request handlers        *)
(* (POST /api/recommend, POST /api/more-like-this).                        *)
(*                                                                         *)
(* Scores are kept as exact integers, Scale times the source's value.      *)
(* Requests carry no closetBoosters and no photoCues (both optional), so   *)
(* the sub-scores that read them contribute 0, as in the source.           *)
(***************************************************************************)
EXTENDS Integers, Sequences, FiniteSets, TLC

VARIABLES cachedDataset, pc, quiz, adjusted, refinement, filtered, relaxationsApplied,
          requestedTopN, candidates, llmOutput, response,
          appState, shownCostumeIds, selectedCard, isLoadingMore, moreLikeThisResults,
          inFlight, returned

vars == <<cachedDataset, pc, quiz, adjusted, refinement, filtered, relaxationsApplied,
          requestedTopN, candidates, llmOutput, response,
          appState, shownCostumeIds, selectedCard, isLoadingMore, moreLikeThisResults,
          inFlight, returned>>

\* the state of the page (app/page.tsx) and of its results grid
\* (components/ResultsGrid.tsx): selectedCard is the id of selectedCostume,
\* inFlight the more-like-this requests awaiting their response, returned
\* the sets of costume ids the page has received so far
clientVars == <<appState, shownCostumeIds, selectedCard, isLoadingMore, moreLikeThisResults,
                inFlight, returned>>

\* the page before the quiz is submitted
ClientIdle ==
  /\ appState = "quiz"
  /\ shownCostumeIds = <<>>
  /\ selectedCard = "none"
  /\ isLoadingMore = FALSE
  /\ moreLikeThisResults = <<>>
  /\ inFlight = <<>>
  /\ returned = <<>>

----------------------------------------------------------------------------
(* Bounds *)

\* longest catalog prefix loaded as the dataset
MaxCatalog == 7
\* largest exclude list a more-like-this caller sends
MaxExclude == 2
\* deepest shortlist position the text generator picks from
MaxPick == 2
\* sets of similar results one results session receives
MaxRefines == 2
\* entries of a large dataset besides the selected one and the last one
MaxFillers == 50
\* longest list the shuffle is applied to
MaxShuffled == 7

----------------------------------------------------------------------------
(* Generic sequence helpers *)

Min(a, b) == IF a <= b THEN a ELSE b
Max(a, b) == IF a >= b THEN a ELSE b
Abs(a) == IF a >= 0 THEN a ELSE 0 - a

\* Array.prototype.slice(from, to) with 0-based, end-exclusive indices
Slice(s, from, to) == SubSeq(s, Min(from, Len(s)) + 1, Min(to, Len(s)))

\* the array of a function on 1..n, every element computed once
Array(f) == f \o <<>>

\* Array.prototype.includes
Includes(s, x) == \E i \in 1..Len(s) : s[i] = x

\* Array.prototype.indexOf, 0-based, -1 when absent
RECURSIVE IndexFrom(_, _, _)
IndexFrom(s, x, i) ==
  IF i > Len(s) THEN -1 ELSE IF s[i] = x THEN i - 1 ELSE IndexFrom(s, x, i + 1)

IndexOf(s, x) == IndexFrom(s, x, 1)

Range(s) == { s[i] : i \in 1..Len(s) }

----------------------------------------------------------------------------
(* Schema enums (lib/schema.ts) *)

Universes == <<"movie", "tv", "music", "sports", "internet">>
effortOrder == <<"one_item", "few_fast", "some_work", "suffer_for_bit">>
budgetOrder == <<"lt_30", "30_75", "75_150", "dont_care">>
relaxationSteps == <<"era", "universe", "budget", "effort">>

----------------------------------------------------------------------------
(* The catalog: records valid under CostumeSchema.  funnyExtreme is not a  *)
(* key of CostumeSchema, so safeParse strips it and every loaded record    *)
(* reads it as undefined (falsy).                                          *)

BaseCostume ==
  [ id |-> "cos_base", universe |-> "movie", era |-> "90s",
    vibes |-> [funny |-> 1, sexy |-> 1, stylish |-> 1, clever |-> 1, lowEffortHighPayoff |-> 1],
    nicheScore |-> 3, genderPresentation |-> "flexible",
    constraints |-> [effort |-> "few_fast", budget |-> "30_75", comfort |-> "medium",
                     barFriendly |-> TRUE, pocketsLikely |-> TRUE],
    requirements |-> [anchorItem |-> "anchor", items |-> <<"i1", "i2", "i3">>,
                      makeupLevel |-> "none", wigRequired |-> FALSE, facePaintRequired |-> FALSE],
    safety |-> [cultureSpecific |-> FALSE, religiousAttire |-> FALSE, politicalFigure |-> FALSE,
                controversial |-> FALSE, skinToneChangeImplied |-> FALSE],
    requiresBodyPaintOrFullFacePaint |-> FALSE,
    similarity |-> [archetypeTags |-> <<"suit">>, vibeTags |-> <<"stylish">>],
    images |-> [primary |-> [kind |-> "manual"]],
    funnyExtreme |-> FALSE ]

AllCostumes ==
  << [BaseCostume EXCEPT !.id = "cos_morpheus", !.universe = "movie", !.era = "90s",
        !.images.primary.kind = "tmdb",
        !.vibes.stylish = 3, !.vibes.funny = 0, !.nicheScore = 2,
        !.requirements.items = <<"trench coat", "sunglasses", "boots", "black shirt">>,
        !.similarity.archetypeTags = <<"suit", "sunglasses">>,
        !.similarity.vibeTags = <<"stylish", "cool">>],
     [BaseCostume EXCEPT !.id = "cos_elvis", !.universe = "music", !.era = "70s_80s",
        !.vibes.funny = 2, !.vibes.sexy = 2, !.nicheScore = 1,
        !.genderPresentation = "masc",
        !.constraints.effort = "some_work", !.constraints.budget = "75_150",
        !.constraints.comfort = "low",
        !.requirements.wigRequired = TRUE, !.requirements.makeupLevel = "light",
        !.requirements.items = <<"jumpsuit", "wig", "cape", "belt", "rings", "scarf", "boots", "glasses">>,
        !.similarity.archetypeTags = <<"jumpsuit">>,
        !.similarity.vibeTags = <<"retro", "cool">>],
     [BaseCostume EXCEPT !.id = "cos_jordan", !.universe = "sports", !.era = "90s",
        !.images.primary.kind = "wikimedia",
        !.vibes.lowEffortHighPayoff = 3, !.vibes.stylish = 2, !.nicheScore = 1,
        !.constraints.effort = "one_item", !.constraints.budget = "lt_30",
        !.constraints.comfort = "high",
        !.requirements.items = <<"jersey", "shorts", "sneakers">>,
        !.similarity.archetypeTags = <<"jersey">>,
        !.similarity.vibeTags = <<"recognizable">>],
     [BaseCostume EXCEPT !.id = "cos_geisha", !.universe = "movie", !.era = "2000s",
        !.vibes.stylish = 2, !.nicheScore = 5,
        !.genderPresentation = "femme",
        !.constraints.effort = "suffer_for_bit", !.constraints.budget = "dont_care",
        !.constraints.pocketsLikely = FALSE,
        !.requirements.facePaintRequired = TRUE, !.requirements.makeupLevel = "heavy",
        !.safety.cultureSpecific = TRUE,
        !.similarity.archetypeTags = <<"robe">>,
        !.similarity.vibeTags = <<"stylish">>],
     [BaseCostume EXCEPT !.id = "cos_ted_lasso", !.universe = "tv", !.era = "current",
        !.images.primary.kind = "tmdb",
        !.vibes.funny = 3, !.vibes.clever = 2, !.nicheScore = 3,
        !.constraints.effort = "few_fast", !.constraints.budget = "lt_30",
        !.constraints.comfort = "high",
        !.requirements.items = <<"tracksuit", "whistle", "mustache", "visor", "sneakers">>,
        !.similarity.archetypeTags = <<"tracksuit">>,
        !.similarity.vibeTags = <<"wholesome", "recognizable">>],
     [BaseCostume EXCEPT !.id = "cos_gamora", !.universe = "movie", !.era = "current",
        !.images.primary.kind = "tmdb",
        !.vibes.sexy = 3, !.vibes.clever = 2, !.nicheScore = 6,
        !.genderPresentation = "femme",
        !.constraints.effort = "suffer_for_bit", !.constraints.budget = "75_150",
        !.constraints.barFriendly = FALSE,
        !.requirements.makeupLevel = "heavy",
        !.safety.skinToneChangeImplied = TRUE,
        !.requiresBodyPaintOrFullFacePaint = TRUE,
        !.similarity.archetypeTags = <<"leather">>,
        !.similarity.vibeTags = <<"cool", "deep cut">>],
     [BaseCostume EXCEPT !.id = "cos_pope", !.universe = "internet", !.era = "any",
        !.vibes.funny = 3, !.nicheScore = 10,
        !.genderPresentation = "androgynous",
        !.constraints.effort = "some_work", !.constraints.budget = "30_75",
        !.safety.religiousAttire = TRUE, !.safety.politicalFigure = TRUE,
        !.safety.controversial = TRUE,
        !.similarity.archetypeTags = <<"robe">>,
        !.similarity.vibeTags = <<"meme">>],
     [BaseCostume EXCEPT !.id = "cos_serena", !.universe = "sports", !.era = "2000s",
        !.images.primary.kind = "wikimedia",
        !.vibes.stylish = 3, !.vibes.sexy = 2, !.nicheScore = 2,
        !.genderPresentation = "femme",
        !.constraints.effort = "few_fast", !.constraints.budget = "30_75",
        !.constraints.comfort = "high", !.constraints.pocketsLikely = FALSE,
        !.requirements.items = <<"tennis dress", "racket", "visor">>,
        !.similarity.archetypeTags = <<"jersey", "racket">>,
        !.similarity.vibeTags = <<"recognizable", "stylish">>],
     [BaseCostume EXCEPT !.id = "cos_rickroll", !.universe = "internet", !.era = "70s_80s",
        !.vibes.funny = 3, !.vibes.clever = 3, !.nicheScore = 4,
        !.constraints.effort = "few_fast", !.constraints.budget = "lt_30",
        !.requirements.items = <<"trench coat", "striped shirt", "microphone">>,
        !.similarity.archetypeTags = <<"suit">>,
        !.similarity.vibeTags = <<"meme", "retro">>] >>

\* ids of the entries of data/costumes.v1.json that carry funnyExtreme: true
FunnyExtremeInFile == {"cos_pope", "cos_rickroll"}

\* the array JSON.parse returns for the catalog file
CatalogFile ==
  [ i \in 1..Len(AllCostumes) |->
      [AllCostumes[i] EXCEPT !.funnyExtreme = (AllCostumes[i].id \in FunnyExtremeInFile)] ]

\* CostumeSchema.safeParse(item).data: a z.object drops the keys it does not
\* declare, and reading a dropped key gives undefined
safeParse(item) == [item EXCEPT !.funnyExtreme = FALSE]

\* the validation loop of loadDataset
loadDataset(parsed) == [ i \in 1..Len(parsed) |-> safeParse(parsed[i]) ]

\* the datasets the loader may have cached: prefixes of the catalog file
Catalogs ==
  { loadDataset(SubSeq(CatalogFile, 1, n)) : n \in 0..Min(MaxCatalog, Len(AllCostumes)) }

CatalogIds == { AllCostumes[i].id : i \in 1..Len(AllCostumes) }

----------------------------------------------------------------------------
(* Hard constraint filtering (lib/filter.ts) *)

\* the face-paint boundary reading facePaintRequired alone
passesConstraints_noBodyPaint(costume, q) ==
  /\ ~(q.boundaries.avoidCultureSpecific /\ costume.safety.cultureSpecific)
  /\ ~(q.boundaries.avoidReligious /\ costume.safety.religiousAttire)
  /\ ~(q.boundaries.avoidPolitical /\ costume.safety.politicalFigure)
  /\ ~(q.boundaries.avoidControversial /\ costume.safety.controversial)
  /\ ~(q.boundaries.noSkinToneChange /\ costume.safety.skinToneChangeImplied)
  /\ ~(q.boundaries.avoidWigs /\ costume.requirements.wigRequired)
  /\ ~(q.boundaries.avoidFacePaint /\ costume.requirements.facePaintRequired)
  /\ ~(Len(q.universes) > 0 /\ Len(q.universes) < 5 /\ ~Includes(q.universes, costume.universe))

\* the universe rule without its length > 0 guard: an empty selection
\* matches no item
passesConstraints_emptySelection(costume, q) ==
  /\ ~(q.boundaries.avoidCultureSpecific /\ costume.safety.cultureSpecific)
  /\ ~(q.boundaries.avoidReligious /\ costume.safety.religiousAttire)
  /\ ~(q.boundaries.avoidPolitical /\ costume.safety.politicalFigure)
  /\ ~(q.boundaries.avoidControversial /\ costume.safety.controversial)
  /\ ~(q.boundaries.noSkinToneChange /\ costume.safety.skinToneChangeImplied)
  /\ ~(q.boundaries.avoidWigs /\ costume.requirements.wigRequired)
  /\ ~(q.boundaries.avoidFacePaint /\
         (costume.requirements.facePaintRequired \/ costume.requiresBodyPaintOrFullFacePaint))
  /\ ~(Len(q.universes) < 5 /\ ~Includes(q.universes, costume.universe))

passesConstraints(costume, q) ==
  /\ ~(q.boundaries.avoidCultureSpecific /\ costume.safety.cultureSpecific)
  /\ ~(q.boundaries.avoidReligious /\ costume.safety.religiousAttire)
  /\ ~(q.boundaries.avoidPolitical /\ costume.safety.politicalFigure)
  /\ ~(q.boundaries.avoidControversial /\ costume.safety.controversial)
  /\ ~(q.boundaries.noSkinToneChange /\ costume.safety.skinToneChangeImplied)
  /\ ~(q.boundaries.avoidWigs /\ costume.requirements.wigRequired)
  /\ ~(q.boundaries.avoidFacePaint /\
         (costume.requirements.facePaintRequired \/ costume.requiresBodyPaintOrFullFacePaint))
  /\ ~(Len(q.universes) > 0 /\ Len(q.universes) < 5 /\ ~Includes(q.universes, costume.universe))

filterByConstraints(costumes, q) ==
  SelectSeq(costumes, LAMBDA costume : passesConstraints(costume, q))

\* a practical filter that also demands the item's effort tier to be the
\* requested one
passesPractical_effortExact(costume, q) ==
  /\ ~(q.practical.mustSurviveCrowdedBar /\ ~costume.constraints.barFriendly)
  /\ ~(q.practical.needsPockets /\ ~costume.constraints.pocketsLikely)
  /\ ~(q.practical.mustBeComfortable /\ costume.constraints.comfort = "low")
  /\ costume.constraints.effort = q.effort

passesPractical(costume, q) ==
  /\ ~(q.practical.mustSurviveCrowdedBar /\ ~costume.constraints.barFriendly)
  /\ ~(q.practical.needsPockets /\ ~costume.constraints.pocketsLikely)
  /\ ~(q.practical.mustBeComfortable /\ costume.constraints.comfort = "low")

filterByPractical(costumes, q) ==
  SelectSeq(costumes, LAMBDA costume : passesPractical(costume, q))

applyHardFilters(costumes, q) ==
  filterByPractical(filterByConstraints(costumes, q), q)

----------------------------------------------------------------------------
(* Relaxation ladder (lib/relax.ts) *)

relaxOne(relaxed, relaxation) ==
  CASE relaxation = "era" -> [relaxed EXCEPT !.era = "any"]
    [] relaxation = "universe" -> [relaxed EXCEPT !.universes = <<>>]
    [] relaxation = "budget" ->
         LET currentBudgetIndex == IndexOf(budgetOrder, relaxed.budget)
         IN IF currentBudgetIndex < Len(budgetOrder) - 1
            THEN [relaxed EXCEPT !.budget = budgetOrder[currentBudgetIndex + 2]]
            ELSE relaxed
    [] relaxation = "effort" ->
         LET currentEffortIndex == IndexOf(effortOrder, relaxed.effort)
         IN IF currentEffortIndex < Len(effortOrder) - 1
            THEN [relaxed EXCEPT !.effort = effortOrder[currentEffortIndex + 2]]
            ELSE relaxed
    [] OTHER -> relaxed

RECURSIVE relaxQuiz(_, _)
relaxQuiz(q, relaxations) ==
  IF relaxations = <<>> THEN q
  ELSE relaxOne(relaxQuiz(q, SubSeq(relaxations, 1, Len(relaxations) - 1)),
                relaxations[Len(relaxations)])

\* relaxQuiz assigning to the caller's object: relaxed is the argument
\* itself, not a copy
quizAfterRelaxQuiz_noCopy(q, relaxations) == relaxQuiz(q, relaxations)

\* the caller's object when relaxQuiz returns: relaxed is a
\* JSON.parse(JSON.stringify(quiz)) copy and every assignment goes to it
quizAfterRelaxQuiz(q, relaxations) == q

\* the for-loop filtering the pool of the previous iteration instead of
\* allCostumes
RECURSIVE ladderLoop_compounding(_, _, _, _, _, _)
ladderLoop_compounding(allCostumes, q, minResults, appliedRelaxations, pool, i) ==
  IF i > Len(relaxationSteps)
  THEN [costumes |-> pool, relaxationsApplied |-> appliedRelaxations, quiz |-> q]
  ELSE LET applied2 == Append(appliedRelaxations, relaxationSteps[i])
           relaxedQuiz == relaxQuiz(q, applied2)
           q2 == quizAfterRelaxQuiz(q, applied2)
           pool2 == applyHardFilters(pool, relaxedQuiz)
       IN IF Len(pool2) >= minResults
          THEN [costumes |-> pool2, relaxationsApplied |-> applied2, quiz |-> q2]
          ELSE ladderLoop_compounding(allCostumes, q2, minResults, applied2, pool2, i + 1)

\* the for-loop of applyRelaxationLadder, entered at step i with the pool
\* and the applied list left by the previous iteration
RECURSIVE ladderLoop(_, _, _, _, _, _)
ladderLoop(allCostumes, q, minResults, appliedRelaxations, pool, i) ==
  IF i > Len(relaxationSteps)
  THEN [costumes |-> pool, relaxationsApplied |-> appliedRelaxations, quiz |-> q]
  ELSE LET applied2 == Append(appliedRelaxations, relaxationSteps[i])
           relaxedQuiz == relaxQuiz(q, applied2)
           q2 == quizAfterRelaxQuiz(q, applied2)
           pool2 == applyHardFilters(allCostumes, relaxedQuiz)
       IN IF Len(pool2) >= minResults
          THEN [costumes |-> pool2, relaxationsApplied |-> applied2, quiz |-> q2]
          ELSE ladderLoop(allCostumes, q2, minResults, applied2, pool2, i + 1)

\* the early return comparing with > instead of >=
applyRelaxationLadder_strictFloor(allCostumes, q, minResults) ==
  LET pool == applyHardFilters(allCostumes, q)
  IN IF Len(pool) > minResults
     THEN [costumes |-> pool, relaxationsApplied |-> <<>>, quiz |-> q]
     ELSE ladderLoop(allCostumes, q, minResults, <<>>, pool, 1)

applyRelaxationLadder(allCostumes, q, minResults) ==
  LET pool == applyHardFilters(allCostumes, q)
  IN IF Len(pool) >= minResults
     THEN [costumes |-> pool, relaxationsApplied |-> <<>>, quiz |-> q]
     ELSE ladderLoop(allCostumes, q, minResults, <<>>, pool, 1)

----------------------------------------------------------------------------
(* Scoring engine (lib/score.ts).  Sub-scores are 120 times the source's   *)
(* value, weights 10 times, so a score is 1200 times the source's score.   *)

WEIGHTS ==
  [vibeMatch |-> 30, nicheMatch |-> 20, effortMatch |-> 15, budgetMatch |-> 15,
   genderMatch |-> 10, practicalBonus |-> 10, resemblanceMatch |-> 10, eraMatch |-> 5]

RECURSIVE SumVibes(_, _)
SumVibes(costume, goals) ==
  IF goals = <<>> THEN 0
  ELSE costume.vibes[Head(goals)] * 40 + SumVibes(costume, Tail(goals))

scoreVibes(costume, goals) == SumVibes(costume, goals) \div Len(goals)

scoreNiche(costume, nicheTarget) ==
  LET diff == Abs(costume.nicheScore - nicheTarget)
  IN 120 - diff * 20

scoreEffort(costume, effort) ==
  LET userIndex == IndexOf(effortOrder, effort)
      costumeIndex == IndexOf(effortOrder, costume.constraints.effort)
  IN IF costumeIndex <= userIndex THEN 120
     ELSE IF costumeIndex = userIndex + 1 THEN 60
     ELSE 12

scoreBudget(costume, budget) ==
  IF budget = "dont_care" THEN 120
  ELSE IF costume.constraints.budget = "dont_care" THEN 120
  ELSE LET order == SubSeq(budgetOrder, 1, 3)
           userIndex == IndexOf(order, budget)
           costumeIndex == IndexOf(order, costume.constraints.budget)
       IN IF costumeIndex <= userIndex THEN 120
          ELSE IF costumeIndex = userIndex + 1 THEN 60
          ELSE 12

scorePractical(costume, q) ==
  LET comfortable == q.practical.mustBeComfortable
      bar == q.practical.mustSurviveCrowdedBar
      pockets == q.practical.needsPockets
      factors == (IF comfortable THEN 1 ELSE 0) + (IF bar THEN 1 ELSE 0)
                   + (IF pockets THEN 1 ELSE 0)
      bonus == (IF comfortable
                THEN (IF costume.constraints.comfort = "high" THEN 120
                      ELSE IF costume.constraints.comfort = "medium" THEN 60 ELSE 0)
                ELSE 0)
               + (IF bar /\ costume.constraints.barFriendly THEN 120 ELSE 0)
               + (IF pockets /\ costume.constraints.pocketsLikely THEN 120 ELSE 0)
  IN IF factors > 0 THEN bonus \div factors ELSE 0

scoreEra(costume, era) ==
  IF era = "any" \/ costume.era = "any" THEN 120
  ELSE IF costume.era = era THEN 120 ELSE 60

\* scoreCostume passes no userPresentation
scoreGenderPresentation(costume, genderPref) ==
  IF genderPref = "dont_care" THEN 120
  ELSE IF costume.genderPresentation = "flexible" THEN 120
  ELSE IF costume.genderPresentation = "androgynous" THEN 108
  ELSE 84

\* the photoCues argument is undefined for the requests modelled
scoreResemblance(costume, resemblanceTarget) ==
  IF resemblanceTarget <= 3
  THEN Max(0, 120 - (IF costume.requirements.wigRequired THEN 36 ELSE 0)
                  - (IF costume.requirements.makeupLevel = "heavy" THEN 24 ELSE 0)
                  - (IF costume.requirements.facePaintRequired THEN 36 ELSE 0)
                  - (IF costume.requiresBodyPaintOrFullFacePaint THEN 36 ELSE 0))
  ELSE IF resemblanceTarget >= 5
  THEN Min(120, 60 + (IF ~costume.requirements.wigRequired THEN 24 ELSE 0))
  ELSE 84

scoreCostume(costume, q) ==
    scoreVibes(costume, q.goals) * WEIGHTS.vibeMatch
  + scoreNiche(costume, q.nicheTarget) * WEIGHTS.nicheMatch
  + scoreEffort(costume, q.effort) * WEIGHTS.effortMatch
  + scoreBudget(costume, q.budget) * WEIGHTS.budgetMatch
  + scoreGenderPresentation(costume, q.genderPref) * WEIGHTS.genderMatch
  + scorePractical(costume, q) * WEIGHTS.practicalBonus
  + scoreResemblance(costume, q.resemblanceTarget) * WEIGHTS.resemblanceMatch
  + scoreEra(costume, q.era) * WEIGHTS.eraMatch

\* { ...costume, score }
WithScore(costume, n) == ("score" :> n) @@ costume

\* a sort that puts an item before the earlier items of equal score
SortByScore_unstable(s) ==
  LET pos == Array([i \in 1..Len(s) |->
                      1 + Cardinality({ j \in 1..Len(s) :
                            \/ s[j].score > s[i].score
                            \/ s[j].score = s[i].score /\ j > i })])
  IN Array([k \in 1..Len(s) |-> s[CHOOSE i \in 1..Len(s) : pos[i] = k]])

\* Array.prototype.sort((a, b) => b.score - a.score): stable, descending.
\* An item lands after the items of higher score and after the earlier
\* items of equal score.
SortByScore(s) ==
  LET pos == Array([i \in 1..Len(s) |->
                      1 + Cardinality({ j \in 1..Len(s) :
                            \/ s[j].score > s[i].score
                            \/ s[j].score = s[i].score /\ j < i })])
  IN Array([k \in 1..Len(s) |-> s[CHOOSE i \in 1..Len(s) : pos[i] = k]])

\* costumes.map(costume => ({ ...costume, score: scoreCostume(costume, quiz) }))
scoreAll(costumes, q) ==
  Array([i \in 1..Len(costumes) |-> WithScore(costumes[i], scoreCostume(costumes[i], q))])

\* scoreAndRank writing the score into the record it was given instead of
\* into a spread copy
costumesAfterScoreAndRank_inPlace(costumes, q, topN) == scoreAll(costumes, q)

\* the records of the list passed to scoreAndRank when it returns: the map
\* builds a new object {...costume, score} for each and sorts the new array
costumesAfterScoreAndRank(costumes, q, topN) == costumes

\* the catalog array after a callee returned: filter results hold the
\* catalog's own records, so what a callee wrote to a record of list is
\* seen through the catalog
sharedRecords(catalog, list) ==
  [i \in 1..Len(catalog) |->
     IF \E j \in 1..Len(list) : list[j].id = catalog[i].id
     THEN list[CHOOSE j \in 1..Len(list) : list[j].id = catalog[i].id]
     ELSE catalog[i]]

scoreAndRank(costumes, q, topN) == Slice(SortByScore(scoreAll(costumes, q)), 0, topN)

----------------------------------------------------------------------------
(* Diversity rules (lib/diversify.ts).  An operator that calls            *)
(* Math.random returns the set of results the draws can produce.           *)

\* Array.prototype.splice(at, 0, x) and splice(at, 1), 0-based
InsertAt(s, at, x) == SubSeq(s, 1, Min(at, Len(s))) \o <<x>> \o SubSeq(s, Min(at, Len(s)) + 1, Len(s))
RemoveAt(s, at) == SubSeq(s, 1, at) \o SubSeq(s, at + 2, Len(s))

Swap(s, i, j) == [s EXCEPT ![i + 1] = s[j + 1], ![j + 1] = s[i + 1]]

\* the Fisher-Yates loop from index i down to 1, any draw j in 0..i
RECURSIVE shuffleFrom(_, _)
shuffleFrom(result, i) ==
  IF i <= 0 THEN {result}
  ELSE UNION { shuffleFrom(Swap(result, i, j), i - 1) : j \in 0..i }

shuffleArray(array) == shuffleFrom(array, Len(array) - 1)

RECURSIVE shuffleBuckets(_, _, _)
shuffleBuckets(cands, bucketSize, i) ==
  IF i >= Len(cands) THEN {<<>>}
  ELSE { shuffled \o rest :
           shuffled \in shuffleArray(Slice(cands, i, i + bucketSize)),
           rest \in shuffleBuckets(cands, bucketSize, i + bucketSize) }

\* a shuffle of the whole list
addRandomShuffle_wholeList(cands, bucketSize) == shuffleArray(cands)

\* addRandomShuffle(candidates, bucketSize): the set of lists it can return
addRandomShuffle(cands, bucketSize) ==
  IF Len(cands) <= 3 THEN {cands}
  ELSE shuffleBuckets(cands, bucketSize, 0)

TagsOf(costumes) == UNION { Range(costumes[i].similarity.archetypeTags) : i \in 1..Len(costumes) }

\* the promotion loop of ensureDiversity over remainingCandidates[i..]
RECURSIVE promoteArchetypes(_, _, _, _, _)
promoteArchetypes(result, archetypesInTop10, remainingCandidates, i, minArchetypes) ==
  IF i > Len(remainingCandidates) THEN result
  ELSE LET candidate == remainingCandidates[i]
           newArchetypes == Range(candidate.similarity.archetypeTags) \ archetypesInTop10
       IN IF newArchetypes # {}
          THEN IF Cardinality(archetypesInTop10 \cup newArchetypes) >= minArchetypes
               THEN InsertAt(result, 9, candidate)
               ELSE promoteArchetypes(InsertAt(result, 9, candidate),
                                      archetypesInTop10 \cup newArchetypes,
                                      remainingCandidates, i + 1, minArchetypes)
          ELSE promoteArchetypes(result, archetypesInTop10, remainingCandidates, i + 1,
                                 minArchetypes)

ensureDiversity(cands, minArchetypes) ==
  IF Len(cands) <= 3 THEN cands
  ELSE LET top10 == Slice(cands, 0, 10)
           archetypesInTop10 == TagsOf(top10)
       IN IF Cardinality(archetypesInTop10) >= minArchetypes THEN cands
          ELSE LET remainingCandidates == Slice(cands, 10, Len(cands))
                   result == promoteArchetypes(top10, archetypesInTop10, remainingCandidates,
                                               1, minArchetypes)
                   includedIds == { result[i].id : i \in 1..Len(result) }
               IN result \o SelectSeq(remainingCandidates, LAMBDA c : c.id \notin includedIds)

\* the pass returning every list as it is
ensureUniverseDiversity_never(cands, universes) == cands

ensureUniverseDiversity(cands, universes) ==
  IF Len(universes) > 0 /\ Len(universes) < 5 THEN cands
  ELSE IF Len(cands) <= 3 THEN cands
  ELSE LET top3Universes == { cands[i].universe : i \in 1..3 }
           dominantUniverse == cands[1].universe
           remaining == Slice(cands, 3, Len(cands))
           different == { i \in 0..(Len(remaining) - 1) : remaining[i + 1].universe # dominantUniverse }
       IN IF Cardinality(top3Universes) >= 2 THEN cands
          ELSE IF different = {} THEN cands
          ELSE LET i == CHOOSE k \in different : \A m \in different : k <= m
               IN InsertAt(RemoveAt(cands, 3 + i), 2, cands[3 + i + 1])

ensureFunnyExtreme(cands) ==
  IF Len(cands) <= 3 THEN {cands}
  ELSE LET hasFunnyExtreme == \E i \in 1..3 : cands[i].funnyExtreme
           remaining == Slice(cands, 3, Len(cands))
           funnyExtremeIndices ==
             SelectSeq([i \in 1..Len(remaining) |-> i - 1],
                       LAMBDA i : remaining[i + 1].funnyExtreme)
           topAbsurdCount == Min(10, Len(funnyExtremeIndices))
           topAbsurdIndices == Slice(funnyExtremeIndices, 0, topAbsurdCount)
       IN IF hasFunnyExtreme THEN {cands}
          ELSE IF Len(funnyExtremeIndices) = 0 THEN {cands}
          ELSE { InsertAt(RemoveAt(cands, 3 + randomIndex), 2, cands[3 + randomIndex + 1]) :
                   randomIndex \in Range(topAbsurdIndices) }

----------------------------------------------------------------------------
(* Fallback generator (lib/fallback.ts).  A "why it matches" bullet is     *)
(* recorded by the template library it is drawn from.                      *)

WHY_TEMPLATES ==
  {"lowEffort", "stylish", "funny", "clever", "sexy", "niche", "recognizable",
   "budgetFriendly", "barFriendly"}

vibeBullet(goals) ==
  LET vibeKey(goal) == IF goal = "lowEffortHighPayoff" THEN "lowEffort" ELSE goal
      hits == { i \in 1..Len(goals) : vibeKey(goals[i]) \in WHY_TEMPLATES }
  IN IF hits = {} THEN <<>>
     ELSE <<vibeKey(goals[CHOOSE i \in hits : \A j \in hits : i <= j])>>

generateWhyItMatches(costume, q) ==
  LET nicheBullet == IF costume.nicheScore <= 2 THEN <<"recognizable">>
                     ELSE IF costume.nicheScore >= 6 THEN <<"niche">>
                     ELSE <<>>
      practicalBullet ==
        IF costume.constraints.budget = "lt_30" \/ costume.constraints.budget = "30_75"
        THEN <<"budgetFriendly">>
        ELSE IF costume.constraints.barFriendly /\ q.practical.mustSurviveCrowdedBar
        THEN <<"barFriendly">>
        ELSE <<>>
      bullets == vibeBullet(q.goals) \o nicheBullet \o practicalBullet
      padded == IF Len(bullets) < 2 THEN Append(bullets, "stylish") ELSE bullets
  IN Slice(padded, 0, 3)

getDifficulty(effort) ==
  CASE effort \in {"one_item", "few_fast"} -> "Easy"
    [] effort = "some_work" -> "Medium"
    [] effort = "suffer_for_bit" -> "Hard"
    [] OTHER -> "Medium"

\* the composer copying the whole item list
generateFallbackRecommendation_untruncated(costume, q) ==
  [ costumeId |-> costume.id,
    whyItMatches |-> generateWhyItMatches(costume, q),
    difficulty |-> getDifficulty(costume.constraints.effort),
    anchorItem |-> costume.requirements.anchorItem,
    shoppingList |-> costume.requirements.items,
    warnings |-> IF costume.requiresBodyPaintOrFullFacePaint
                 THEN <<"This needs body/face paint">> ELSE <<>>,
    similarityTags |-> costume.similarity.archetypeTags \o costume.similarity.vibeTags ]

generateFallbackRecommendation(costume, q) ==
  [ costumeId |-> costume.id,
    whyItMatches |-> generateWhyItMatches(costume, q),
    difficulty |-> getDifficulty(costume.constraints.effort),
    anchorItem |-> costume.requirements.anchorItem,
    shoppingList |-> Slice(costume.requirements.items, 0, 7),
    warnings |-> IF costume.requiresBodyPaintOrFullFacePaint
                 THEN <<"This needs body/face paint">> ELSE <<>>,
    similarityTags |-> costume.similarity.archetypeTags \o costume.similarity.vibeTags ]

\* a thrown Error is the record [error |-> message]
Threw(r) == "error" \in DOMAIN r

generateFallbackRecommendations(cands, q) ==
  LET top3 == Slice(cands, 0, 3)
  IN IF Len(top3) < 3 THEN [error |-> "Not enough candidates for fallback"]
     ELSE [value |-> << generateFallbackRecommendation(top3[1], q),
                        generateFallbackRecommendation(top3[2], q),
                        generateFallbackRecommendation(top3[3], q) >>]

----------------------------------------------------------------------------
(* Text generator client (lib/llm.ts, reproduced in README.md).  The       *)
(* generator's answer is an input: no answer before the 8s abort, an empty *)
(* message, content JSON.parse rejects, or a parsed object.                *)

\* texts the generator may write; the second holds a forbidden phrase
CleanText == "Gets laughs"
ForbiddenText == "As an AI, I recommend this"

containsForbiddenPhrases(texts) == \E i \in 1..Len(texts) : texts[i] = ForbiddenText

RECURSIVE firstRecError(_, _, _)
firstRecError(recs, candidateIds, i) ==
  IF i > Len(recs) THEN "none"
  ELSE LET rec == recs[i]
       IN IF rec.costumeId \notin candidateIds THEN "Invalid costume ID"
          ELSE IF Len(rec.whyItMatches) < 2 \/ Len(rec.whyItMatches) > 3
          THEN "Invalid whyItMatches count"
          ELSE IF Len(rec.shoppingList) < 3 \/ Len(rec.shoppingList) > 7
          THEN "Invalid shoppingList count"
          ELSE IF containsForbiddenPhrases(rec.whyItMatches \o rec.shoppingList)
          THEN "Response contains forbidden AI phrases"
          ELSE firstRecError(recs, candidateIds, i + 1)

\* Map.get: the last entry written for the key
CandidateOf(cands, id) ==
  cands[CHOOSE i \in 1..Len(cands) :
          cands[i].id = id /\ \A j \in (i + 1)..Len(cands) : cands[j].id # id]

generateRecommendations(q, cands, answer) ==
  IF answer.kind = "timeout" THEN [error |-> "AbortError"]
  ELSE IF answer.kind = "empty" THEN [error |-> "Empty LLM response"]
  ELSE IF answer.kind = "unparsable" THEN [error |-> "SyntaxError"]
  ELSE IF answer.kind = "no_array" THEN [error |-> "Invalid recommendation count"]
  ELSE LET recs == answer.recommendations
           candidateIds == { cands[i].id : i \in 1..Len(cands) }
           recError == firstRecError(recs, candidateIds, 1)
       IN IF Len(recs) # 3 THEN [error |-> "Invalid recommendation count"]
          ELSE IF recError # "none" THEN [error |-> recError]
          ELSE LET selectedCostumes == [i \in 1..Len(recs) |-> CandidateOf(cands, recs[i].costumeId)]
                   validCostumes == applyHardFilters(selectedCostumes, q)
               IN IF Len(validCostumes) # 3
                  THEN [error |-> "LLM selected costumes that violate boundaries"]
                  ELSE [value |-> recs]

enrichRecommendations(llmRecs, cands) ==
  [i \in 1..Len(llmRecs) |->
     LET rec == llmRecs[i]
         costume == CandidateOf(cands, rec.costumeId)
     IN [ costumeId |-> rec.costumeId,
          whyItMatches |-> rec.whyItMatches,
          difficulty |-> getDifficulty(costume.constraints.effort),
          anchorItem |-> costume.requirements.anchorItem,
          shoppingList |-> rec.shoppingList,
          warnings |-> <<>>,
          similarityTags |-> costume.similarity.archetypeTags \o costume.similarity.vibeTags ]]

----------------------------------------------------------------------------
(* Refinement direction (app/api/more-like-this/route.ts) *)

applyDirection(q, direction) ==
  CASE direction = "more_recognizable" -> [q EXCEPT !.nicheTarget = Max(1, @ - 2)]
    [] direction = "weirder" -> [q EXCEPT !.nicheTarget = Min(7, @ + 2)]
    [] direction = "easier" ->
         LET currentIndex == IndexOf(effortOrder, q.effort)
         IN IF currentIndex > 0 THEN [q EXCEPT !.effort = effortOrder[currentIndex]] ELSE q
    [] direction = "hotter" ->
         IF ~Includes(q.goals, "sexy")
         THEN [q EXCEPT !.goals = Append(Slice(q.goals, 0, 1), "sexy")] ELSE q
    [] direction = "stylisher" ->
         IF ~Includes(q.goals, "stylish")
         THEN [q EXCEPT !.goals = Append(Slice(q.goals, 0, 1), "stylish")] ELSE q
    [] OTHER -> q

\* the caller's object when applyDirection returns: adjusted is a
\* JSON.parse(JSON.stringify(quiz)) copy and every assignment goes to it
quizAfterApplyDirection(q, direction) == q

\* number of the costume's archetype and vibe tags found in selectedTags
matchingTags(costume, selectedTags) ==
  Len(SelectSeq(costume.similarity.archetypeTags \o costume.similarity.vibeTags,
                LAMBDA tag : tag \in selectedTags))

\* the .map without the similarity boost
boostSimilar_noBoost(ranked, selectedTags) == ranked

\* the .map of the more-like-this handler: score + matchingTags * 0.5
boostSimilar(ranked, selectedTags) ==
  Array([i \in 1..Len(ranked) |->
           [ranked[i] EXCEPT !.score = @ + matchingTags(ranked[i], selectedTags) * 600]])

----------------------------------------------------------------------------
(* Requests: records valid under QuizResponseSchema *)

NoBoundaries ==
  [noSkinToneChange |-> FALSE, avoidCultureSpecific |-> FALSE, avoidReligious |-> FALSE,
   avoidPolitical |-> FALSE, avoidFacePaint |-> FALSE, avoidWigs |-> FALSE,
   avoidControversial |-> FALSE]

BoundaryFlags == DOMAIN NoBoundaries

\* no flag, exactly one flag, the schema default, or every flag
BoundaryProfiles ==
  {NoBoundaries} \cup { [NoBoundaries EXCEPT ![f] = TRUE] : f \in BoundaryFlags }
    \cup { [f \in BoundaryFlags |-> TRUE] }

NoPractical ==
  [mustBeComfortable |-> FALSE, mustSurviveCrowdedBar |-> FALSE, needsPockets |-> FALSE,
   indoorOnly |-> FALSE]

PracticalFlags == DOMAIN NoPractical

PracticalProfiles ==
  {NoPractical} \cup { [NoPractical EXCEPT ![f] = TRUE] : f \in PracticalFlags }
    \cup { [f \in PracticalFlags |-> TRUE] }

BaseQuiz ==
  [ goals |-> <<"funny">>, nicheTarget |-> 3, effort |-> "few_fast", budget |-> "30_75",
    genderPref |-> "dont_care", resemblanceTarget |-> 4,
    universes |-> <<>>, era |-> "90s",
    boundaries |-> NoBoundaries, practical |-> NoPractical ]

\* universe selections the schema accepts: an array of enum values of any
\* length, repeats allowed
UniverseSelections ==
  { <<>>, <<"sports">>, <<"movie", "tv">>, <<"movie", "tv", "music", "sports">>,
    Universes, <<"movie", "movie", "movie", "movie", "movie">> }

LadderQuizzes ==
  { [BaseQuiz EXCEPT !.universes = u, !.era = e, !.budget = b, !.effort = ef,
                     !.boundaries = bd, !.practical = pr] :
      u \in UniverseSelections, e \in {"90s", "any"},
      b \in Range(budgetOrder), ef \in Range(effortOrder),
      bd \in BoundaryProfiles, pr \in PracticalProfiles }

NoResponse == [status |-> 0]
NoOutput == [kind |-> "none"]
NoRefinement == [selectedCostumeId |-> "", direction |-> "none", excludeIds |-> {}]

\* requests sent to the two endpoints
PipelineUniverses == { <<>>, <<"sports">>, <<"movie", "tv">>, <<"movie", "movie", "movie", "movie", "movie">> }

PipelineQuizzes ==
  { [BaseQuiz EXCEPT !.universes = u, !.boundaries = bd, !.practical = pr] :
      u \in PipelineUniverses,
      bd \in {NoBoundaries, [f \in BoundaryFlags |-> TRUE]},
      pr \in {NoPractical, [f \in PracticalFlags |-> TRUE]} }
  \cup { [BaseQuiz EXCEPT !.boundaries = bd] : bd \in BoundaryProfiles }

RefineQuizzes ==
  { [BaseQuiz EXCEPT !.universes = u, !.boundaries = bd, !.practical = pr] :
      u \in { <<>>, <<"sports">> },
      bd \in { NoBoundaries, [f \in BoundaryFlags |-> TRUE] },
      pr \in {NoPractical, [f \in PracticalFlags |-> TRUE]} }
  \cup { [BaseQuiz EXCEPT !.goals = <<"sexy">>, !.nicheTarget = 6, !.effort = "suffer_for_bit"],
         [BaseQuiz EXCEPT !.goals = <<"sexy">>, !.nicheTarget = 10, !.effort = "one_item",
                          !.budget = "dont_care"] }

Directions == {"none", "more_recognizable", "weirder", "easier", "hotter", "stylisher"}

\* ids a caller may name: those of the catalog file and one that is not in it
UnknownId == "cos_unknown"
ExcludePool == {"cos_jordan", "cos_ted_lasso", UnknownId}
ExcludeLists == { e \in SUBSET ExcludePool : Cardinality(e) <= MaxExclude }

----------------------------------------------------------------------------
(* The filter and the ladder applied to drawn inputs *)

InitLadder ==
  /\ cachedDataset \in Catalogs
  /\ quiz \in LadderQuizzes
  /\ adjusted = quiz
  /\ pc = "start"
  /\ refinement = NoRefinement
  /\ filtered = <<>>
  /\ relaxationsApplied = <<>>
  /\ requestedTopN = 20
  /\ candidates = <<>>
  /\ llmOutput = NoOutput
  /\ response = NoResponse
  /\ ClientIdle

RunHardFilters ==
  /\ pc = "start"
  /\ filtered' = applyHardFilters(cachedDataset, quiz)
  /\ pc' = "filtered"
  /\ UNCHANGED <<requestedTopN, cachedDataset, quiz, adjusted, refinement, relaxationsApplied, candidates,
                 llmOutput, response>>
  /\ UNCHANGED clientVars

RunLadder ==
  /\ pc = "start"
  /\ LET r == applyRelaxationLadder(cachedDataset, quiz, 5)
     IN /\ filtered' = r.costumes
        /\ relaxationsApplied' = r.relaxationsApplied
        /\ quiz' = r.quiz
  /\ pc' = "relaxed"
  /\ UNCHANGED <<requestedTopN, cachedDataset, adjusted, refinement, candidates, llmOutput, response>>
  /\ UNCHANGED clientVars

NextLadder == RunHardFilters \/ RunLadder

SpecLadder == InitLadder /\ [][NextLadder]_vars

----------------------------------------------------------------------------
(* The ladder and the direction adjustment applied to a request the caller *)
(* holds                                                                   *)

Goals == {"funny", "sexy", "stylish", "clever", "lowEffortHighPayoff"}

\* goals: an array of 1 or 2 enum values
GoalSelections == { <<g>> : g \in Goals } \cup { <<g, h>> : g \in Goals, h \in Goals }

NicheScores == 1..10

AdjustQuizzes ==
  { [BaseQuiz EXCEPT !.goals = g, !.nicheTarget = n, !.effort = ef, !.universes = u] :
      g \in GoalSelections, n \in NicheScores, ef \in Range(effortOrder),
      u \in { <<>>, <<"sports">> } }

InitAdjust ==
  /\ cachedDataset \in { c \in Catalogs : Len(c) >= MaxCatalog - 1 }
  /\ quiz \in AdjustQuizzes
  /\ adjusted = quiz
  /\ pc = "start"
  /\ refinement = NoRefinement
  /\ filtered = <<>>
  /\ relaxationsApplied = <<>>
  /\ requestedTopN = 20
  /\ candidates = <<>>
  /\ llmOutput = NoOutput
  /\ response = NoResponse
  /\ ClientIdle

RunDirection ==
  /\ pc \in {"start", "relaxed"}
  /\ \E direction \in Directions :
       /\ adjusted' = applyDirection(quiz, direction)
       /\ quiz' = quizAfterApplyDirection(quiz, direction)
       /\ refinement' = [NoRefinement EXCEPT !.direction = direction]
  /\ pc' = "adjusted"
  /\ UNCHANGED <<requestedTopN, cachedDataset, filtered, relaxationsApplied, candidates, llmOutput, response>>
  /\ UNCHANGED clientVars

\* the list lengths scoreAndRank is asked for: below the size of the
\* list, its default 20, and the handlers' 30 and 50
TopNs == {2, 4, 20, 30, 50}

\* scoreAndRank(costumes, quiz, topN) on the whole dataset
RunScoreAndRank ==
  /\ pc = "start"
  /\ \E n \in TopNs :
       /\ requestedTopN' = n
       /\ candidates' = scoreAndRank(cachedDataset, quiz, n)
  /\ pc' = "ranked"
  /\ UNCHANGED <<cachedDataset, quiz, adjusted, refinement, filtered, relaxationsApplied,
                 llmOutput, response>>
  /\ UNCHANGED clientVars

NextAdjust == RunLadder \/ RunDirection \/ RunScoreAndRank

SpecAdjust == InitAdjust /\ [][NextAdjust]_vars

----------------------------------------------------------------------------
(* The fallback composer applied to one catalog record and one request *)

\* requirements.items: an array of 3 to 10 strings
ItemLists ==
  { SubSeq(<<"i1", "i2", "i3", "i4", "i5", "i6", "i7", "i8", "i9", "i10">>, 1, n) : n \in 3..10 }

\* records that differ in what the composer reads
FallbackCostumes ==
  { [BaseCostume EXCEPT !.requirements.items = items, !.nicheScore = n,
                        !.constraints.budget = b, !.constraints.barFriendly = bar] :
      items \in ItemLists, n \in {2, 4, 6}, b \in {"30_75", "75_150"}, bar \in BOOLEAN }

FallbackQuizzes ==
  { [BaseQuiz EXCEPT !.goals = g, !.practical = pr] :
      g \in GoalSelections, pr \in {NoPractical, [f \in PracticalFlags |-> TRUE]} }

InitFallback ==
  /\ ClientIdle
  /\ \E costume \in FallbackCostumes : cachedDataset = <<costume>>
  /\ quiz \in FallbackQuizzes
  /\ adjusted = quiz
  /\ pc = "start"
  /\ refinement = NoRefinement
  /\ filtered = <<>>
  /\ relaxationsApplied = <<>>
  /\ requestedTopN = 20
  /\ candidates = <<>>
  /\ llmOutput = NoOutput
  /\ response = NoResponse

\* generateFallbackRecommendation for the record and the request
RunFallback ==
  /\ pc = "start"
  /\ response' = [status |-> 200,
                  recommendations |-> <<generateFallbackRecommendation(cachedDataset[1], quiz)>>]
  /\ pc' = "composed"
  /\ UNCHANGED <<cachedDataset, quiz, adjusted, refinement, filtered, relaxationsApplied,
                 requestedTopN, candidates, llmOutput>>
  /\ UNCHANGED clientVars

NextFallback == RunFallback

SpecFallback == InitFallback /\ [][NextFallback]_vars

----------------------------------------------------------------------------
(* The shuffle and the three diversity passes applied to a ranked list.    *)
(* candidates is the list passed in, filtered the list returned.           *)

IdNames ==
  << "c01", "c02", "c03", "c04", "c05", "c06", "c07", "c08", "c09", "c10",
     "c11", "c12", "c13", "c14" >>

\* a ranked list of n candidates with the given tags, universe and flag at
\* each rank; a candidate handed to a pass by a caller other than the
\* dataset loader may carry funnyExtreme
RECURSIVE RankedList(_, _, _, _)
RankedList(n, tagsAt, universeAt, funnyAt) ==
  IF n = 0 THEN <<>>
  ELSE Append(RankedList(n - 1, tagsAt, universeAt, funnyAt),
              [BaseCostume EXCEPT !.id = IdNames[n],
                                  !.similarity.archetypeTags = tagsAt[n],
                                  !.universe = universeAt[n],
                                  !.funnyExtreme = funnyAt[n]])

\* lists of 11 to 13 whose first nine share their archetype tags
ArchetypeLists ==
  { RankedList(n, [k \in 1..13 |-> IF k <= 9 THEN head ELSE IF k = 10 THEN tenth ELSE tail[k - 10]],
               [k \in 1..13 |-> "movie"], [k \in 1..13 |-> FALSE]) :
      n \in 11..13, head \in {<<>>, <<"suit">>}, tenth \in {<<>>, <<"suit">>, <<"robe">>},
      tail \in [1..3 -> {<<>>, <<"suit">>, <<"robe">>, <<"cape">>}] }

\* lists of 2 to 6 over two universes
UniverseLists ==
  { RankedList(n, [k \in 1..6 |-> <<"suit">>], universeAt, [k \in 1..6 |-> FALSE]) :
      n \in 2..6, universeAt \in [1..6 -> {"movie", "tv"}] }

\* lists of 3 to 7 with any flags, and lists of 14 with 10 or 11 flagged
\* candidates below the top three
FunnyLists ==
  { RankedList(n, [k \in 1..7 |-> <<"suit">>],
               [k \in 1..7 |-> IF k = 3 THEN "tv" ELSE "movie"], funnyAt) :
      n \in 3..7, funnyAt \in [1..7 -> BOOLEAN] }
  \cup { RankedList(14, [k \in 1..14 |-> <<"suit">>], [k \in 1..14 |-> "movie"],
                    [k \in 1..14 |-> k > first]) : first \in 3..4 }

InitDiversify ==
  /\ ClientIdle
  /\ cachedDataset = <<>>
  /\ candidates \in ArchetypeLists \cup UniverseLists \cup FunnyLists
  /\ \E u \in UniverseSelections :
       /\ candidates \in UniverseLists \/ u = <<>>
       /\ quiz = [BaseQuiz EXCEPT !.universes = u]
  /\ adjusted = quiz
  /\ pc = "start"
  /\ refinement = NoRefinement
  /\ filtered = <<>>
  /\ relaxationsApplied = <<>>
  /\ requestedTopN = 20
  /\ llmOutput = NoOutput
  /\ response = NoResponse

\* addRandomShuffle(candidates, 5)
RunAddRandomShuffle ==
  /\ pc = "start"
  /\ Len(candidates) <= MaxShuffled
  /\ \E shuffled \in addRandomShuffle(candidates, 5) : filtered' = shuffled
  /\ pc' = "shuffled"
  /\ UNCHANGED <<cachedDataset, quiz, adjusted, refinement, relaxationsApplied,
                 requestedTopN, candidates, llmOutput, response>>
  /\ UNCHANGED clientVars

\* ensureDiversity(candidates)
RunEnsureDiversity ==
  /\ pc = "start"
  /\ filtered' = ensureDiversity(candidates, 2)
  /\ pc' = "diversity"
  /\ UNCHANGED <<cachedDataset, quiz, adjusted, refinement, relaxationsApplied,
                 requestedTopN, candidates, llmOutput, response>>
  /\ UNCHANGED clientVars

\* ensureUniverseDiversity(candidates, quiz.universes)
RunEnsureUniverseDiversity ==
  /\ pc = "start"
  /\ filtered' = ensureUniverseDiversity(candidates, quiz.universes)
  /\ pc' = "universe"
  /\ UNCHANGED <<cachedDataset, quiz, adjusted, refinement, relaxationsApplied,
                 requestedTopN, candidates, llmOutput, response>>
  /\ UNCHANGED clientVars

\* ensureFunnyExtreme(candidates)
RunEnsureFunnyExtreme ==
  /\ pc = "start"
  /\ \E promoted \in ensureFunnyExtreme(candidates) : filtered' = promoted
  /\ pc' = "funny"
  /\ UNCHANGED <<cachedDataset, quiz, adjusted, refinement, relaxationsApplied,
                 requestedTopN, candidates, llmOutput, response>>
  /\ UNCHANGED clientVars

\* the pass that returned filtered applied to that list
RunPassAgain ==
  /\ pc \in {"diversity", "universe", "funny"}
  /\ candidates' = filtered
  /\ \/ /\ pc = "diversity"
        /\ filtered' = ensureDiversity(filtered, 2)
        /\ pc' = "diversity_again"
     \/ /\ pc = "universe"
        /\ filtered' = ensureUniverseDiversity(filtered, quiz.universes)
        /\ pc' = "universe_again"
     \/ /\ pc = "funny"
        /\ \E promoted \in ensureFunnyExtreme(filtered) : filtered' = promoted
        /\ pc' = "funny_again"
  /\ UNCHANGED <<cachedDataset, quiz, adjusted, refinement, relaxationsApplied,
                 requestedTopN, llmOutput, response>>
  /\ UNCHANGED clientVars

NextDiversify ==
  \/ RunAddRandomShuffle
  \/ RunEnsureDiversity
  \/ RunEnsureUniverseDiversity
  \/ RunEnsureFunnyExtreme
  \/ RunPassAgain

SpecDiversify == InitDiversify /\ [][NextDiversify]_vars

----------------------------------------------------------------------------
(* Answers the text generator may give for a shortlist *)

LLMRec(id, nWhy, nShop, text) ==
  [ costumeId |-> id,
    whyItMatches |-> [i \in 1..nWhy |-> IF i = 1 THEN text ELSE CleanText],
    shoppingList |-> [i \in 1..nShop |-> CleanText] ]

PickIds(cands) == { cands[i].id : i \in 1..Min(MaxPick, Len(cands)) } \cup {UnknownId}

\* the i-th shortlist id, the last one when the shortlist is shorter
NthId(cands, i) == IF cands = <<>> THEN UnknownId ELSE cands[Min(i, Len(cands))].id

WellFormedRecs(cands) ==
  << LLMRec(NthId(cands, 1), 2, 3, CleanText), LLMRec(NthId(cands, 2), 3, 7, CleanText),
     LLMRec(NthId(cands, 3), 2, 5, CleanText) >>

DefectiveRecs ==
  { LLMRec("", 1, 3, CleanText), LLMRec("", 4, 3, CleanText), LLMRec("", 2, 2, CleanText),
    LLMRec("", 2, 8, CleanText), LLMRec("", 3, 7, ForbiddenText) }

LLMOutputs(cands) ==
  { [kind |-> k] : k \in {"timeout", "empty", "unparsable", "no_array"} }
  \cup { [kind |-> "parsed",
          recommendations |-> << LLMRec(a, 2, 3, CleanText), LLMRec(b, 3, 7, CleanText),
                                 LLMRec(c, 2, 5, CleanText) >>] :
           a \in PickIds(cands), b \in PickIds(cands), c \in PickIds(cands) }
  \cup { [kind |-> "parsed",
          recommendations |-> [WellFormedRecs(cands) EXCEPT
                                 ![p] = [d EXCEPT !.costumeId = NthId(cands, p)]]] :
           p \in 1..3, d \in DefectiveRecs }
  \cup { [kind |-> "parsed", recommendations |-> WellFormedRecs(cands)],
         [kind |-> "parsed", recommendations |-> SubSeq(WellFormedRecs(cands), 1, 2)],
         [kind |-> "parsed",
          recommendations |-> Append(WellFormedRecs(cands), LLMRec(NthId(cands, 1), 2, 3, CleanText))] }

----------------------------------------------------------------------------
(* The request handlers.  Requests share nothing but the cached dataset,   *)
(* so one request is followed from arrival to response; pc is its          *)
(* position: "idle", "generating" (awaiting the text generator), "done".   *)
(* "resolving" (awaiting the image sources of the three recommendations).  *)
(* response holds the body being built and is sent when pc becomes "done". *)
(* An image resolves to a URL or to the placeholder; which one is not      *)
(* recorded.  The server runs with TMDB_API_KEY set and an empty TMDB      *)
(* configuration cache.                                                    *)

Init ==
  /\ cachedDataset \in Catalogs
  /\ pc = "idle"
  /\ quiz = BaseQuiz
  /\ adjusted = BaseQuiz
  /\ refinement = NoRefinement
  /\ filtered = <<>>
  /\ relaxationsApplied = <<>>
  /\ requestedTopN = 20
  /\ candidates = <<>>
  /\ llmOutput = NoOutput
  /\ response = NoResponse
  /\ ClientIdle

Reply(r) ==
  /\ response' = r
  /\ pc' = "done"

\* the early returns of both handlers: rate limit exceeded, body rejected
\* by the request schema
EarlyReturns ==
  { [status |-> 429, error |-> "Rate limit exceeded. Please wait a moment."],
    [status |-> 400, error |-> "Invalid request"] }

\* POST /api/recommend up to the call of generateRecommendations
RecommendReceive ==
  /\ pc = "idle"
  /\ \E q \in PipelineQuizzes :
       LET ladder == applyRelaxationLadder(cachedDataset, q, 5)
       IN /\ quiz' = ladder.quiz
          /\ filtered' = ladder.costumes
          /\ relaxationsApplied' = ladder.relaxationsApplied
          /\ IF Len(ladder.costumes) = 0
             THEN /\ Reply([status |-> 404,
                            error |-> "No costumes match your criteria. Try loosening some constraints."])
                  /\ UNCHANGED <<cachedDataset, candidates>>
             ELSE /\ cachedDataset' =
                       sharedRecords(cachedDataset, costumesAfterScoreAndRank(ladder.costumes, q, 30))
                  /\ \E shuffled \in addRandomShuffle(scoreAndRank(ladder.costumes, q, 30), 5) :
                       \E diverse \in ensureFunnyExtreme(
                                        ensureUniverseDiversity(ensureDiversity(shuffled, 2),
                                                                q.universes)) :
                         candidates' = Slice(diverse, 0, 20)
                  /\ pc' = "generating"
                  /\ UNCHANGED response
  /\ UNCHANGED <<requestedTopN, adjusted, refinement, llmOutput>>
  /\ UNCHANGED clientVars

RecommendRefuse ==
  /\ pc = "idle"
  /\ \E r \in EarlyReturns : Reply(r)
  /\ UNCHANGED <<requestedTopN, cachedDataset, quiz, adjusted, refinement, filtered, relaxationsApplied,
                 candidates, llmOutput>>
  /\ UNCHANGED clientVars

\* POST /api/recommend from the generator's answer to the response
RecommendGenerate ==
  /\ pc = "generating"
  /\ \E answer \in LLMOutputs(candidates) :
       LET llmResponse == generateRecommendations(quiz, candidates, answer)
           fallback == generateFallbackRecommendations(candidates, quiz)
           mode == IF Threw(llmResponse) THEN "fallback" ELSE "llm"
           recommendations == IF Threw(llmResponse) THEN fallback
                              ELSE [value |-> enrichRecommendations(llmResponse.value, candidates)]
       IN /\ llmOutput' = answer
          /\ IF Threw(recommendations)
             THEN Reply([status |-> 500, error |-> "Failed to generate recommendations"])
             ELSE /\ response' = [status |-> 200,
                                  recommendations |-> SubSeq(recommendations.value, 1, 3),
                                  meta |-> [mode |-> mode, relaxationsApplied |-> relaxationsApplied]]
                  /\ pc' = "resolving"
  /\ UNCHANGED <<requestedTopN, cachedDataset, quiz, adjusted, refinement, filtered, relaxationsApplied,
                 candidates>>
  /\ UNCHANGED clientVars

\* resolveImageWithFallback reaches getTmdbConfig, which awaits a fetch of
\* the TMDB configuration, for a recommendation whose primary image is a
\* TMDB source
awaitsTmdb(recommendations, cands) ==
  \E i \in 1..Len(recommendations) :
    CandidateOf(cands, recommendations[i].costumeId).images.primary.kind = "tmdb"

\* POST /api/recommend, Promise.all of the image resolutions when none of
\* them awaits a fetch: wikimedia and manual sources resolve locally
ResolveImages ==
  /\ pc = "resolving"
  /\ ~awaitsTmdb(response.recommendations, candidates)
  /\ pc' = "done"
  /\ UNCHANGED <<requestedTopN, cachedDataset, quiz, adjusted, refinement, filtered,
                 relaxationsApplied, candidates, llmOutput, response>>
  /\ UNCHANGED clientVars

\* the same when a resolution awaits the TMDB fetch and the fetch settles:
\* with the configuration or with an error that resolveTmdb turns into the
\* placeholder.  The fetch is given no signal or deadline.
ResolveImagesAfterFetch ==
  /\ pc = "resolving"
  /\ awaitsTmdb(response.recommendations, candidates)
  /\ pc' = "done"
  /\ UNCHANGED <<requestedTopN, cachedDataset, quiz, adjusted, refinement, filtered,
                 relaxationsApplied, candidates, llmOutput, response>>
  /\ UNCHANGED clientVars

\* the exclude set built from excludeIds alone
excludeSet_withoutSelected(selectedCostumeId, excludeIds) == excludeIds

\* new Set([selectedCostumeId, ...excludeIds])
excludeSet(selectedCostumeId, excludeIds) == {selectedCostumeId} \cup excludeIds

\* the handler refusing every result of fewer than five
similarResponse_requireFive(top5, adjustedQuiz) ==
  IF Len(top5) < 5
  THEN [status |-> 404, error |-> "No similar costumes found. Try different constraints."]
  ELSE [status |-> 200,
        recommendations |-> [i \in 1..Len(top5) |->
                               generateFallbackRecommendation(top5[i], adjustedQuiz)]]

\* the answer of the more-like-this handler for the top five it found
similarResponse(top5, adjustedQuiz) ==
  IF Len(top5) = 0
  THEN [status |-> 404, error |-> "No similar costumes found. Try different constraints."]
  ELSE [status |-> 200,
        recommendations |-> [i \in 1..Len(top5) |->
                               generateFallbackRecommendation(top5[i], adjustedQuiz)]]

\* the more-like-this handler from applyDirection to the top five, for a
\* selected costume that is in the dataset
findSimilar(costumes, q, selectedCostumeId, excludeIds, direction) ==
  LET selectedCostume ==
        costumes[CHOOSE i \in 1..Len(costumes) :
                   /\ costumes[i].id = selectedCostumeId
                   /\ \A j \in 1..(i - 1) : costumes[j].id # selectedCostumeId]
      adjustedQuiz == applyDirection(q, direction)
      excluded == excludeSet(selectedCostumeId, excludeIds)
      selectedTags == Range(selectedCostume.similarity.archetypeTags)
                        \cup Range(selectedCostume.similarity.vibeTags)
      pool == SelectSeq(applyHardFilters(costumes, adjustedQuiz), LAMBDA c : c.id \notin excluded)
      scored == SortByScore(boostSimilar(scoreAndRank(pool, adjustedQuiz, 50), selectedTags))
  IN [adjustedQuiz |-> adjustedQuiz, filtered |-> pool, top5 |-> Slice(scored, 0, 5)]

\* POST /api/more-like-this
MoreLikeThis ==
  /\ pc = "idle"
  /\ \E q \in RefineQuizzes, direction \in Directions, excludeIds \in ExcludeLists,
        selectedCostumeId \in { cachedDataset[i].id : i \in 1..Len(cachedDataset) } \cup {UnknownId} :
       /\ refinement' = [selectedCostumeId |-> selectedCostumeId, direction |-> direction,
                         excludeIds |-> excludeIds]
       /\ IF \A i \in 1..Len(cachedDataset) : cachedDataset[i].id # selectedCostumeId
          THEN /\ Reply([status |-> 404, error |-> "Selected costume not found"])
               /\ quiz' = q
               /\ UNCHANGED <<cachedDataset, adjusted, filtered, candidates>>
          ELSE LET found == findSimilar(cachedDataset, q, selectedCostumeId, excludeIds, direction)
               IN /\ quiz' = quizAfterApplyDirection(q, direction)
                  /\ adjusted' = found.adjustedQuiz
                  /\ filtered' = found.filtered
                  /\ cachedDataset' =
                       sharedRecords(cachedDataset,
                                     costumesAfterScoreAndRank(found.filtered, found.adjustedQuiz, 50))
                  /\ candidates' = found.top5
                  /\ Reply(similarResponse(found.top5, found.adjustedQuiz))
  /\ UNCHANGED <<requestedTopN, relaxationsApplied, llmOutput>>
  /\ UNCHANGED clientVars

MoreLikeThisRefuse ==
  /\ pc = "idle"
  /\ \E r \in EarlyReturns : Reply(r)
  /\ refinement' = [NoRefinement EXCEPT !.direction = "refused"]
  /\ UNCHANGED <<requestedTopN, cachedDataset, quiz, adjusted, filtered, relaxationsApplied, candidates,
                 llmOutput>>
  /\ UNCHANGED clientVars

\* a request to POST /api/recommend
Next ==
  \/ RecommendReceive
  \/ RecommendRefuse
  \/ RecommendGenerate
  \/ ResolveImages
  \/ ResolveImagesAfterFetch

Spec == Init /\ [][Next]_vars

\* a request to POST /api/more-like-this
NextSimilar ==
  \/ MoreLikeThis
  \/ MoreLikeThisRefuse

SpecSimilar == Init /\ [][NextSimilar]_vars

\* ids of catalog entries that share no tag with cos_morpheus
FillerIds ==
  << "f01", "f02", "f03", "f04", "f05", "f06", "f07", "f08", "f09",
     "f10", "f11", "f12", "f13", "f14", "f15", "f16", "f17", "f18",
     "f19", "f20", "f21", "f22", "f23", "f24", "f25", "f26", "f27",
     "f28", "f29", "f30", "f31", "f32", "f33", "f34", "f35", "f36",
     "f37", "f38", "f39", "f40", "f41", "f42", "f43", "f44", "f45",
     "f46", "f47", "f48", "f49", "f50", "f51", "f52", "f53", "f54" >>

\* n such entries, equal in everything the scorer reads
RECURSIVE Fillers(_)
Fillers(n) ==
  IF n = 0 THEN <<>>
  ELSE Append(Fillers(n - 1),
              [BaseCostume EXCEPT !.id = FillerIds[n],
                                  !.similarity.archetypeTags = <<"jersey">>,
                                  !.similarity.vibeTags = <<"recognizable">>])

\* a dataset of more entries than the 50 the handler asks scoreAndRank for:
\* cos_morpheus, the fillers, and a last entry that scores like a filler
\* and shares three tags with cos_morpheus
LargeCatalogs ==
  { <<AllCostumes[1]>> \o Fillers(n)
      \o << [BaseCostume EXCEPT !.id = "cos_neo",
                                !.similarity.archetypeTags = <<"suit", "sunglasses">>,
                                !.similarity.vibeTags = <<"cool">>] >> :
      n \in (MaxFillers - 1)..MaxFillers }

\* excludeIds naming entries of the large dataset
LargeExcludeLists == { {}, {"f01"}, {"f01", "f02"} }

\* a request body that passed validation, for a large dataset
InitLarge ==
  /\ ClientIdle
  /\ cachedDataset \in LargeCatalogs
  /\ pc = "start"
  /\ quiz \in RefineQuizzes
  /\ adjusted = quiz
  /\ refinement \in [selectedCostumeId : {"cos_morpheus", "f01"}, direction : Directions,
                      excludeIds : LargeExcludeLists]
  /\ filtered = <<>>
  /\ relaxationsApplied = <<>>
  /\ requestedTopN = 20
  /\ candidates = <<>>
  /\ llmOutput = NoOutput
  /\ response = NoResponse

\* the handler from applyDirection to its response, on the request drawn
RunFindSimilar ==
  /\ pc = "start"
  /\ LET found == findSimilar(cachedDataset, quiz, refinement.selectedCostumeId,
                              refinement.excludeIds, refinement.direction)
     IN /\ quiz' = quizAfterApplyDirection(quiz, refinement.direction)
        /\ adjusted' = found.adjustedQuiz
        /\ filtered' = found.filtered
        /\ cachedDataset' =
             sharedRecords(cachedDataset,
                           costumesAfterScoreAndRank(found.filtered, found.adjustedQuiz, 50))
        /\ candidates' = found.top5
        /\ Reply(similarResponse(found.top5, found.adjustedQuiz))
  /\ UNCHANGED <<refinement, requestedTopN, relaxationsApplied, llmOutput>>
  /\ UNCHANGED clientVars

NextSimilarLarge == RunFindSimilar

\* POST /api/more-like-this on a large dataset
SpecSimilarLarge == InitLarge /\ [][NextSimilarLarge]_vars

----------------------------------------------------------------------------
(* One results session of the page (app/page.tsx, components/ResultsGrid.tsx) *)

\* [...new Set([...prev, ...newIds])]
RECURSIVE uniqueIds(_, _)
uniqueIds(prev, newIds) ==
  IF Len(newIds) = 0 THEN prev
  ELSE uniqueIds(IF Includes(prev, Head(newIds)) THEN prev ELSE Append(prev, Head(newIds)),
                 Tail(newIds))

\* data.recommendations.map((r) => r.costumeId)
RECURSIVE costumeIdsOf(_)
costumeIdsOf(recs) ==
  IF Len(recs) = 0 THEN <<>> ELSE <<Head(recs).costumeId>> \o costumeIdsOf(Tail(recs))

\* the quizzes a visitor submits
SessionQuizzes ==
  { BaseQuiz,
    [BaseQuiz EXCEPT !.goals = <<"sexy">>, !.nicheTarget = 6, !.effort = "suffer_for_bit"] }

\* the positions, among the ranked candidates, of the three costumes the
\* recommend endpoint answers with
SubmitPicks ==
  { p \in (1..(MaxPick + 2)) \X (1..(MaxPick + 2)) \X (1..(MaxPick + 2)) :
      p[1] < p[2] /\ p[2] < p[3] }

\* handleSubmit up to the await of the fetch of /api/recommend
handleSubmit ==
  /\ appState = "quiz"
  /\ \E q \in SessionQuizzes : quiz' = q
  /\ appState' = "loading"
  /\ UNCHANGED <<cachedDataset, pc, adjusted, refinement, filtered, relaxationsApplied,
                 requestedTopN, candidates, llmOutput, response, shownCostumeIds,
                 selectedCard, isLoadingMore, moreLikeThisResults, inFlight, returned>>

\* handleSubmit from the response on: an error response throws and shows the
\* error page, a 200 shows its recommendations and records their ids
handleSubmitReturn ==
  /\ appState = "loading"
  /\ LET ranked == scoreAndRank(applyRelaxationLadder(cachedDataset, quiz, 5).costumes, quiz, 30)
     IN \/ /\ \E r \in EarlyReturns : response' = r
           /\ appState' = "error"
           /\ UNCHANGED <<shownCostumeIds, returned>>
        \/ \E p \in SubmitPicks :
             /\ p[3] <= Len(ranked)
             /\ LET recs == << generateFallbackRecommendation(ranked[p[1]], quiz),
                               generateFallbackRecommendation(ranked[p[2]], quiz),
                               generateFallbackRecommendation(ranked[p[3]], quiz) >>
                IN /\ response' = [status |-> 200, recommendations |-> recs,
                                   meta |-> [mode |-> "fallback", relaxationsApplied |-> <<>>]]
                   /\ appState' = "results"
                   /\ shownCostumeIds' = uniqueIds(shownCostumeIds, costumeIdsOf(recs))
                   /\ returned' = Append(returned, Range(costumeIdsOf(recs)))
  /\ UNCHANGED <<cachedDataset, pc, quiz, adjusted, refinement, filtered, relaxationsApplied,
                 requestedTopN, candidates, llmOutput, selectedCard, isLoadingMore,
                 moreLikeThisResults, inFlight>>

\* page.handleMoreLikeThis up to the await of the fetch: the request carries
\* the shown ids of the render the click happened in
startMoreLikeThis(costumeId, direction) ==
  /\ Len(returned) + Len(inFlight) <= MaxRefines
  /\ inFlight' = Append(inFlight, [selectedCostumeId |-> costumeId, direction |-> direction,
                                   excludeIds |-> shownCostumeIds])
  /\ selectedCard' = costumeId
  /\ isLoadingMore' = TRUE
  /\ UNCHANGED <<cachedDataset, pc, quiz, adjusted, refinement, filtered, relaxationsApplied,
                 requestedTopN, candidates, llmOutput, response, appState, shownCostumeIds,
                 moreLikeThisResults, returned>>

\* ResultsGrid.handleMoreLikeThis: the button of a card of the initial
\* recommendations or of the similar results; it is never disabled
handleMoreLikeThis ==
  /\ appState = "results"
  /\ \E costumeId \in Range(costumeIdsOf(response.recommendations))
                        \cup Range(costumeIdsOf(moreLikeThisResults)) :
       startMoreLikeThis(costumeId, "none")

\* ResultsGrid.handleDirectionRefine: a button of the refine bar, disabled
\* while isLoadingMore; without a selected card the first recommendation
\* is selected
handleDirectionRefine ==
  /\ appState = "results"
  /\ ~isLoadingMore
  /\ \E direction \in Directions \ {"none"} :
       startMoreLikeThis(IF selectedCard = "none"
                         THEN response.recommendations[1].costumeId
                         ELSE selectedCard,
                         direction)

\* the response to the i-th request in flight and what page.handleMoreLikeThis
\* and the grid do with it: a 200 adds its ids to the shown ids and replaces
\* the similar results, any other response leaves an error message
moreLikeThisReturn ==
  /\ appState = "results"
  /\ \E i \in 1..Len(inFlight) :
       LET req == inFlight[i]
           found == findSimilar(cachedDataset, quiz, req.selectedCostumeId,
                                Range(req.excludeIds), req.direction)
       IN /\ inFlight' = SubSeq(inFlight, 1, i - 1) \o SubSeq(inFlight, i + 1, Len(inFlight))
          /\ isLoadingMore' = FALSE
          /\ \E answer \in EarlyReturns \cup {similarResponse(found.top5, found.adjustedQuiz)} :
               IF answer.status = 200
               THEN /\ shownCostumeIds' =
                         uniqueIds(shownCostumeIds, costumeIdsOf(answer.recommendations))
                    /\ moreLikeThisResults' = answer.recommendations
                    /\ returned' = Append(returned, Range(costumeIdsOf(answer.recommendations)))
               ELSE UNCHANGED <<shownCostumeIds, moreLikeThisResults, returned>>
  /\ UNCHANGED <<cachedDataset, pc, quiz, adjusted, refinement, filtered, relaxationsApplied,
                 requestedTopN, candidates, llmOutput, response, appState, selectedCard>>

NextSession ==
  \/ handleSubmit
  \/ handleSubmitReturn
  \/ handleMoreLikeThis
  \/ handleDirectionRefine
  \/ moreLikeThisReturn

InitSession ==
  /\ Init
  /\ Len(cachedDataset) >= MaxCatalog - 1

SpecSession == InitSession /\ [][NextSession]_vars

----------------------------------------------------------------------------

\* Recommend on a small dataset, with the progress the code guarantees:
\* the generator call settles or its 8 s abort fires, and local image
\* resolutions complete; nothing bounds the wait for the TMDB fetch
InitLive ==
  /\ Init
  /\ Len(cachedDataset) <= MaxCatalog - 3

SpecLive ==
  InitLive /\ [][Next]_vars /\ WF_vars(RecommendGenerate) /\ WF_vars(ResolveImages)

\* a request to either endpoint
NextService == Next \/ NextSimilar

SpecService == Init /\ [][NextService]_vars

----------------------------------------------------------------------------
(* Properties of the filter and the ladder *)

LadderPrefix(k) == SubSeq(relaxationSteps, 1, k)

NextTier(order, v) ==
  IF v = order[Len(order)] THEN v ELSE order[IndexOf(order, v) + 2]

\* the request with exactly the given steps loosened, stated field by field
Loosened(q, steps) ==
  [q EXCEPT !.era = IF Includes(steps, "era") THEN "any" ELSE @,
            !.universes = IF Includes(steps, "universe") THEN <<>> ELSE @,
            !.budget = IF Includes(steps, "budget") THEN NextTier(budgetOrder, @) ELSE @,
            !.effort = IF Includes(steps, "effort") THEN NextTier(effortOrder, @) ELSE @]

LoosenedPool(k) == applyHardFilters(cachedDataset, Loosened(quiz, LadderPrefix(k)))

C6_PoolIsFilterOfFullCatalog ==
  pc = "relaxed" =>
    filtered = applyHardFilters(cachedDataset, Loosened(quiz, relaxationsApplied))

C6_Witness ==
  /\ pc = "relaxed"
  /\ Len(relaxationsApplied) = Len(relaxationSteps)
  /\ Len(filtered) > Len(applyHardFilters(cachedDataset, quiz))
  /\ quiz.budget # "dont_care"
  /\ quiz.effort = "suffer_for_bit"

RelaxedPool(k) == applyHardFilters(cachedDataset, relaxQuiz(quiz, LadderPrefix(k)))

\* C7: the pool size is non-decreasing along the ladder.
C7_PoolSizeMonotone ==
  \A k \in 0..(Len(relaxationSteps) - 1) : Len(RelaxedPool(k + 1)) >= Len(RelaxedPool(k))

C7_Witness ==
  /\ pc = "relaxed"
  /\ Len(RelaxedPool(2)) > Len(RelaxedPool(1))
  /\ Len(RelaxedPool(1)) > 0

\* C10: a non-empty proper subset of the universe enum admits only items of
\* the selected universes; an empty or full selection excludes no item on
\* account of its universe.
C10_UniverseSelectionRespected ==
  pc = "filtered" =>
    LET selected == Range(quiz.universes)
    IN IF selected # {} /\ selected # Range(Universes)
       THEN \A i \in 1..Len(filtered) : filtered[i].universe \in selected
       ELSE \A i \in 1..Len(cachedDataset) :
              (\A j \in 1..Len(filtered) : filtered[j].id # cachedDataset[i].id) =>
                \A u \in Range(Universes) :
                  applyHardFilters(<<[cachedDataset[i] EXCEPT !.universe = u]>>, quiz) = <<>>

IdsOf(costumes) == { costumes[i].id : i \in 1..Len(costumes) }

\* C18: for two requests identical except for the effort tolerance, the
\* items passing the hard filter under the more permissive tolerance are a
\* superset of those passing under the less permissive one.
C18_EffortMonotone ==
  pc = "filtered" =>
    \A b \in 1..Len(effortOrder) :
      b > IndexOf(effortOrder, quiz.effort) + 1 =>
        IdsOf(filtered) \subseteq
          IdsOf(applyHardFilters(cachedDataset, [quiz EXCEPT !.effort = effortOrder[b]]))

C18_Witness ==
  /\ pc = "filtered"
  /\ quiz.effort = "one_item"
  /\ Len(filtered) >= 2
  /\ Len(filtered) < Len(cachedDataset)
  /\ \E i \in 1..Len(filtered) : filtered[i].constraints.effort = "suffer_for_bit"

----------------------------------------------------------------------------
(* Properties of the request adjustments *)

C14_NicheAdjustedWithinBounds ==
  pc = "adjusted" =>
    /\ adjusted.nicheTarget \in NicheScores
    /\ refinement.direction = "weirder" =>
         /\ adjusted.nicheTarget = Min(10, quiz.nicheTarget + 2)
         /\ adjusted.nicheTarget >= quiz.nicheTarget
    /\ refinement.direction = "more_recognizable" =>
         /\ adjusted.nicheTarget = Max(1, quiz.nicheTarget - 2)
         /\ adjusted.nicheTarget <= quiz.nicheTarget

\* the goal a direction asks for
DirectionGoal == IF refinement.direction = "hotter" THEN "sexy" ELSE "stylish"

\* C15: 'hotter' returns a request whose goals include 'sexy' and number 1
\* or 2; with both slots taken by other goals 'sexy' replaces the least
\* recently selected goal (the first of the list) and the more recently
\* selected one is kept; a request that has the goal keeps its goals;
\* 'stylisher' does the same for 'stylish'.
C15_DirectionGoalReplacesOldest ==
  (pc = "adjusted" /\ refinement.direction \in {"hotter", "stylisher"}) =>
    /\ Includes(adjusted.goals, DirectionGoal)
    /\ Len(adjusted.goals) \in 1..2
    /\ Includes(quiz.goals, DirectionGoal) => adjusted.goals = quiz.goals
    /\ (Len(quiz.goals) = 2 /\ ~Includes(quiz.goals, DirectionGoal)) =>
         /\ Includes(adjusted.goals, quiz.goals[2])
         /\ quiz.goals[1] # quiz.goals[2] => ~Includes(adjusted.goals, quiz.goals[1])

\* position of the item with the given id in the dataset
CatalogIndex(id) == CHOOSE i \in 1..Len(cachedDataset) : cachedDataset[i].id = id

\* C17: scoreAndRank returns the topN highest-scoring items in
\* non-increasing score order, and two items of equal score keep the
\* relative order they have in the input list.
C17_RankedStable ==
  pc = "ranked" =>
    /\ Len(candidates) = Min(requestedTopN, Len(cachedDataset))
    /\ \A i \in 1..Len(candidates) :
         /\ \E k \in 1..Len(cachedDataset) : cachedDataset[k].id = candidates[i].id
         /\ candidates[i].score = scoreCostume(cachedDataset[CatalogIndex(candidates[i].id)], quiz)
    /\ \A i \in 1..Len(candidates), j \in 1..Len(candidates) :
         i < j =>
           /\ candidates[i].score >= candidates[j].score
           /\ candidates[i].id # candidates[j].id
           /\ candidates[i].score = candidates[j].score =>
                CatalogIndex(candidates[i].id) < CatalogIndex(candidates[j].id)
    /\ \A k \in 1..Len(cachedDataset) :
         (\A i \in 1..Len(candidates) : candidates[i].id # cachedDataset[k].id) =>
           \A i \in 1..Len(candidates) : candidates[i].score >= scoreCostume(cachedDataset[k], quiz)

C17_Witness ==
  /\ pc = "ranked"
  /\ requestedTopN < Len(cachedDataset)
  /\ \E i \in 1..(Len(candidates) - 1) :
       /\ candidates[i].score = candidates[i + 1].score
       /\ CatalogIndex(candidates[i].id) + 1 < CatalogIndex(candidates[i + 1].id)

----------------------------------------------------------------------------
(* Properties of POST /api/recommend *)

Answered(status) == pc = "done" /\ response.status = status

ReturnedIds == { response.recommendations[i].costumeId : i \in 1..Len(response.recommendations) }

CatalogRecord(id) == cachedDataset[CHOOSE i \in 1..Len(cachedDataset) : cachedDataset[i].id = id]

ShortlistIds == { candidates[i].id : i \in 1..Len(candidates) }

\* C1: when at least 3 items survive the ladder, a successful Recommend
\* response holds exactly 3 recommendations with pairwise distinct ids, in
\* llm mode as well as in fallback mode.
C1_ThreeDistinctRecommendations ==
  (Answered(200) /\ refinement = NoRefinement /\ Len(filtered) >= 3) =>
    /\ Len(response.recommendations) = 3
    /\ Cardinality(ReturnedIds) = 3

\* the catalog record violates a boundary flag that is on in the request
ViolatesBoundary(costume, boundaries) ==
  \/ boundaries.avoidCultureSpecific /\ costume.safety.cultureSpecific
  \/ boundaries.avoidReligious /\ costume.safety.religiousAttire
  \/ boundaries.avoidPolitical /\ costume.safety.politicalFigure
  \/ boundaries.avoidControversial /\ costume.safety.controversial
  \/ boundaries.noSkinToneChange /\ costume.safety.skinToneChangeImplied
  \/ boundaries.avoidWigs /\ costume.requirements.wigRequired
  \/ boundaries.avoidFacePaint /\ costume.requirements.facePaintRequired
  \/ boundaries.avoidFacePaint /\ costume.requiresBodyPaintOrFullFacePaint

\* C2: no item returned by Recommend violates a boundary flag that is on in
\* the original request, whatever relaxation steps were applied and
\* whatever the generator answered.
C2_BoundariesRespected ==
  (Answered(200) /\ refinement = NoRefinement) =>
    \A id \in ReturnedIds :
      /\ id \in { cachedDataset[i].id : i \in 1..Len(cachedDataset) }
      /\ ~ViolatesBoundary(CatalogRecord(id), quiz.boundaries)

C2_Witness ==
  /\ Answered(200)
  /\ response.meta.mode = "llm"
  /\ Includes(relaxationsApplied, "universe")
  /\ quiz.boundaries.avoidFacePaint
  /\ \E i \in 1..Len(cachedDataset) :
       /\ cachedDataset[i].requiresBodyPaintOrFullFacePaint
       /\ ~cachedDataset[i].requirements.facePaintRequired

\* C3: Recommend never answers with the generic hard failure; it answers
\* with a result or with the distinct "no costumes match" signal, also when
\* fewer than 3 items survive the ladder.
C3_NoHardFailure ==
  pc = "done" => response.status # 500

\* the generator's answer fails one of the checks listed for it
AnswerFailsCheck(answer) ==
  \/ answer.kind # "parsed"
  \/ Len(answer.recommendations) # 3
  \/ \E i \in 1..Len(answer.recommendations) :
       LET rec == answer.recommendations[i]
       IN \/ rec.costumeId \notin ShortlistIds
          \/ Len(rec.whyItMatches) \notin 2..3
          \/ Len(rec.shoppingList) \notin 3..7
          \/ ForbiddenText \in Range(rec.whyItMatches) \cup Range(rec.shoppingList)

\* C4: whenever the generator's answer fails a check, Recommend reports
\* mode fallback and returns the Fallback Composer's recommendations for
\* the first three shortlist items; mode is llm only when every check passed.
C4_FailedAnswerFallsBack ==
  (pc = "done" /\ llmOutput # NoOutput) =>
    /\ AnswerFailsCheck(llmOutput) =>
         /\ response.status = 200
         /\ response.meta.mode = "fallback"
         /\ Len(response.recommendations) = 3
         /\ \A i \in 1..3 :
              response.recommendations[i] = generateFallbackRecommendation(candidates[i], quiz)
         /\ ReturnedIds \subseteq ShortlistIds
    /\ (response.status = 200 /\ response.meta.mode = "llm") => ~AnswerFailsCheck(llmOutput)

\* C19: every Recommend call eventually returns a response, even if the
\* text generator or an image request never answers.
C19_RecommendEventuallyReturns ==
  (pc \in {"generating", "resolving"}) ~> (pc = "done")

\* C20: within one results session no costume that was already returned is
\* returned again: the initial three and every later set of similar results
\* are pairwise disjoint, also for a request started while another is in
\* flight.
C20_NoCostumeReturnedTwice ==
  \A i, j \in 1..Len(returned) : i < j => returned[i] \cap returned[j] = {}

\* C27: when the ladder has loosened the request, a generator selection of
\* 3 shortlist items that passes every validation and violates no boundary
\* or practical constraint is accepted with mode llm, even if a selected
\* item lies outside the universes originally requested.
C27_SelectionAcceptedAfterRelaxation ==
  ( /\ pc = "done"
    /\ relaxationsApplied # <<>>
    /\ ~AnswerFailsCheck(llmOutput)
    /\ Cardinality({ llmOutput.recommendations[i].costumeId : i \in 1..3 }) = 3
    /\ \A i \in 1..3 :
         LET costume == CandidateOf(candidates, llmOutput.recommendations[i].costumeId)
         IN /\ ~ViolatesBoundary(costume, quiz.boundaries)
            /\ passesPractical(costume, Loosened(quiz, relaxationsApplied)) )
  => /\ response.status = 200
     /\ response.meta.mode = "llm"

----------------------------------------------------------------------------
(* Properties of the fallback composer *)

\* C21: for every valid catalog record (3 to 10 items) and every valid
\* request, a fallback recommendation has 2 or 3 "why it matches" strings
\* and a shopping list that is the first min(7, n) entries of the record's
\* item list in their order, hence 3 to 7 entries.
C21_FallbackShape ==
  pc = "composed" =>
    LET rec == response.recommendations[1]
        items == cachedDataset[1].requirements.items
    IN /\ Len(rec.whyItMatches) \in {2, 3}
       /\ Range(rec.whyItMatches) \subseteq WHY_TEMPLATES
       /\ Len(rec.shoppingList) = (IF Len(items) < 7 THEN Len(items) ELSE 7)
       /\ \A i \in 1..Len(rec.shoppingList) : rec.shoppingList[i] = items[i]
       /\ Len(rec.shoppingList) \in 3..7

\* a record of 10 items whose only triggered bullet is the goal's: the
\* list is cut to 7 and the bullets are padded to 2
C21_Witness ==
  /\ pc = "composed"
  /\ Len(cachedDataset[1].requirements.items) = 10
  /\ Len(response.recommendations[1].shoppingList) = 7
  /\ response.recommendations[1].whyItMatches = <<"clever", "stylish">>

----------------------------------------------------------------------------
(* Properties of the shuffle and the diversity passes *)

\* C22: after ensureDiversity ran on more than 10 candidates whose first 10
\* carry fewer than 2 distinct archetype tags, the first 10 of the result
\* carry at least 2 distinct tags whenever the candidates beyond position 10
\* contribute enough new tags; the result holds the same candidates.
C22_TopTenDiverse ==
  ( /\ pc = "diversity"
    /\ Len(candidates) > 10
    /\ Cardinality(TagsOf(SubSeq(candidates, 1, 10))) < 2
    /\ Cardinality(TagsOf(candidates)) >= 2 )
  => /\ Cardinality(TagsOf(SubSeq(filtered, 1, 10))) >= 2
     /\ Len(filtered) = Len(candidates)
     /\ Range(filtered) = Range(candidates)

\* C24: in Recommend, after the forced-inclusion pass ran on a list of more
\* than 3 items, the first three contain a funny/extreme item whenever an
\* item of the list is funny/extreme in the catalog data.
C24_FunnyExtremeInTopThree ==
  ( /\ pc = "generating"
    /\ Len(candidates) > 3
    /\ \E i \in 1..Len(candidates) : candidates[i].id \in FunnyExtremeInFile )
  => \E i \in 1..3 : candidates[i].id \in FunnyExtremeInFile

C26_PassesIdempotent ==
  pc \in {"diversity_again", "universe_again", "funny_again"} => filtered = candidates

\* the first rank after the top three whose universe differs from the
\* universe of the first candidate, 0 when there is none
FirstOtherUniverse(list) ==
  LET other == { k \in 4..Len(list) : list[k].universe # list[1].universe }
  IN IF other = {} THEN 0 ELSE CHOOSE k \in other : \A m \in other : k <= m

\* C23: for a wildcard universe selection (empty or all five universes) and
\* more than 3 candidates whose first three share one universe,
\* ensureUniverseDiversity places the first later candidate of another
\* universe at position 3 and keeps the rest of the order; for a restricted
\* selection, a list of 3 or fewer, or first three that span 2 universes,
\* it returns the list unchanged.
C23_UniverseDiversity ==
  pc = "universe" =>
    LET wildcard == quiz.universes = <<>> \/ Range(quiz.universes) = Range(Universes)
        k == FirstOtherUniverse(candidates)
    IN IF /\ wildcard
          /\ Len(candidates) > 3
          /\ Cardinality({ candidates[i].universe : i \in 1..3 }) = 1
          /\ k # 0
       THEN /\ filtered = SubSeq(candidates, 1, 2) \o <<candidates[k]>>
                             \o SubSeq(candidates, 3, k - 1)
                             \o SubSeq(candidates, k + 1, Len(candidates))
            /\ Cardinality({ filtered[i].universe : i \in 1..3 }) >= 2
       ELSE filtered = candidates

----------------------------------------------------------------------------
(* Properties of the cached catalog *)

----------------------------------------------------------------------------
(* Properties of POST /api/more-like-this *)

SelectedInCatalog ==
  \E i \in 1..Len(cachedDataset) : cachedDataset[i].id = refinement.selectedCostumeId

\* catalog items that pass the hard filter under the adjusted request and
\* are neither the selected item nor on the exclude list
Eligible ==
  { i \in 1..Len(cachedDataset) :
      /\ applyHardFilters(<<cachedDataset[i]>>, applyDirection(quiz, refinement.direction)) # <<>>
      /\ cachedDataset[i].id # refinement.selectedCostumeId
      /\ cachedDataset[i].id \notin refinement.excludeIds }

C9_ExcludedNeverReturned ==
  (Answered(200) /\ refinement.direction \in Directions) =>
    /\ \A i \in 1..Len(filtered) :
         /\ filtered[i].id # refinement.selectedCostumeId
         /\ filtered[i].id \notin refinement.excludeIds
    /\ ReturnedIds \subseteq { filtered[i].id : i \in 1..Len(filtered) }
    /\ refinement.selectedCostumeId \notin ReturnedIds
    /\ ReturnedIds \cap refinement.excludeIds = {}

C9_Witness ==
  /\ Answered(200)
  /\ \E i \in 1..Len(cachedDataset) :
       /\ cachedDataset[i].id \in refinement.excludeIds
       /\ applyHardFilters(<<cachedDataset[i]>>, applyDirection(quiz, refinement.direction)) # <<>>
  /\ applyHardFilters(<<CatalogRecord(refinement.selectedCostumeId)>>,
                      applyDirection(quiz, refinement.direction)) # <<>>

SimilarAnswered == Answered(200) /\ refinement.direction \in Directions

SelectedTags ==
  LET selectedCostume == CatalogRecord(refinement.selectedCostumeId)
  IN Range(selectedCostume.similarity.archetypeTags) \cup Range(selectedCostume.similarity.vibeTags)

\* score of a catalog item under the adjusted request plus 0.5 for each tag
\* it shares with the selected item
BoostedScore(costume) ==
  scoreCostume(costume, adjusted) + 600 * matchingTags(costume, SelectedTags)

\* results of the four diversifier passes of Recommend on a ranked list
DiversifierOutcomes(ranked, universes) ==
  UNION { ensureFunnyExtreme(ensureUniverseDiversity(ensureDiversity(shuffled, 2), universes)) :
            shuffled \in addRandomShuffle(ranked, 5) }

C28_TopFiveByBoostedScore ==
  SimilarAnswered =>
    /\ \A i \in 1..Len(candidates), j \in 1..Len(candidates) :
         i < j => candidates[i].score >= candidates[j].score
    /\ \A k \in Eligible :
         cachedDataset[k].id \notin { candidates[i].id : i \in 1..Len(candidates) }
           => \A i \in 1..Len(candidates) :
                BoostedScore(cachedDataset[k]) <= candidates[i].score

RECURSIVE NicheSum(_)
NicheSum(costumes) ==
  IF costumes = <<>> THEN 0 ELSE Head(costumes).nicheScore + NicheSum(Tail(costumes))

\* what FindSimilar finds for the request of the current state under
\* another direction
FoundUnder(direction) ==
  findSimilar(cachedDataset, quiz, refinement.selectedCostumeId, refinement.excludeIds,
              direction).top5

\* C16: when both calls return results, the average niche score of the
\* items FindSimilar returns with 'weirder' is at least the average of
\* those it returns with 'more_recognizable', all other inputs identical.
C16_WeirderAverageNotLower ==
  (SimilarAnswered /\ refinement.direction = "weirder") =>
    LET other == FoundUnder("more_recognizable")
    IN other # <<>> =>
         NicheSum(candidates) * Len(other) >= NicheSum(other) * Len(candidates)

\* the largest value of NicheScoreSchema
MaxNiche == 10

\* C29: for every item niche score and request niche target the schemas
\* accept, the niche sub-score is 1 minus the absolute difference divided
\* by (max_niche - 1): exactly 0 at the largest distance, never negative.
\* (Sub-scores are 120 times the source's value.)
C29_NicheLinearToZero ==
  pc = "ranked" =>
    \A i \in 1..Len(cachedDataset) :
      LET diff == Abs(cachedDataset[i].nicheScore - quiz.nicheTarget)
          sub == scoreNiche(cachedDataset[i], quiz.nicheTarget)
      IN /\ sub * (MaxNiche - 1) = 120 * (MaxNiche - 1 - diff)
         /\ sub >= 0

\* C30: whatever the random source draws, addRandomShuffle with bucket
\* size 5 returns a permutation of its input in which the item at 0-based
\* rank i ends at a rank j with floor(i/5) = floor(j/5), and a list of 3
\* or fewer items is returned unchanged.
C30_ShuffleStaysInBand ==
  pc = "shuffled" =>
    /\ Len(filtered) = Len(candidates)
    /\ \A i \in 1..Len(candidates) :
         \E j \in 1..Len(filtered) :
           /\ filtered[j] = candidates[i]
           /\ (i - 1) \div 5 = (j - 1) \div 5
    /\ Len(candidates) <= 3 => filtered = candidates

\* a list of two bands returned with both bands reordered
C30_Witness ==
  /\ pc = "shuffled"
  /\ Len(candidates) = 7
  /\ filtered[1] # candidates[1]
  /\ filtered[7] # candidates[7]

====
